---- MODULE Spec2Model ----
(***************************************************************************)
(* Model of src/lib/serviceworker.js: the install / activate lifecycle,    *)
(* the request router and the caching strategies of the fetch listener.    *)
(*                                                                         *)
(* Strings the code inspects (URLs, cache names) are sequences of          *)
(* one-character strings, so that the regular expression of isHashedAsset  *)
(* and String.prototype.replace are computed rather than assumed.          *)
(***************************************************************************)
EXTENDS Integers, Sequences, FiniteSets, TLC

(***************************************************************************)
(* Character-sequence helpers                                              *)
(***************************************************************************)

\* s has the literal lit at position i
MatchAt(s, i, lit) ==
    /\ i >= 1
    /\ i + Len(lit) - 1 <= Len(s)
    /\ \A j \in 1..Len(lit) : s[i + j - 1] = lit[j]

\* s with its first i-1 characters dropped
Drop(s, i) == SubSeq(s, i, Len(s))

\* s contains pat
Includes(s, pat) == \E i \in 1..Len(s) : MatchAt(s, i, pat)

\* position of the first occurrence of pat in s
IndexOf(s, pat) ==
    CHOOSE k \in 1..Len(s) :
        /\ MatchAt(s, k, pat)
        /\ \A m \in 1..(k - 1) : ~MatchAt(s, m, pat)

RECURSIVE StringReplaceAll(_, _)
\* String.prototype.replaceAll(pat, ""): removes every occurrence of pat
StringReplaceAll(s, pat) ==
    IF Includes(s, pat)
    THEN SubSeq(s, 1, IndexOf(s, pat) - 1)
             \o StringReplaceAll(Drop(s, IndexOf(s, pat) + Len(pat)), pat)
    ELSE s

\* String.prototype.replace(pat, ""): removes the first occurrence of pat
StringReplaceFirst(s, pat) ==
    IF Includes(s, pat)
    THEN SubSeq(s, 1, IndexOf(s, pat) - 1) \o Drop(s, IndexOf(s, pat) + Len(pat))
    ELSE s

HexChars == {"a", "b", "c", "d", "e", "f",
             "0", "1", "2", "3", "4", "5", "6", "7", "8", "9"}

(***************************************************************************)
(* Constants of the worker (serviceworker.js lines 1-7)                    *)
(***************************************************************************)

AssetsPrefix == <<"a", "s", "s", "e", "t", "s", "-">>

pagesCacheName == <<"p", "a", "g", "e", "s">>

imageCacheName == <<"i", "m", "a", "g", "e", "s">>

timeout == 5000

maxPages == 50

maxImages == 100

\* Build-time version tokens substituted for APP_VERSION.  The second one
\* itself contains "assets-", which replace() must leave alone.
CurVersions == { <<"v", "2">>, <<"a", "s", "s", "e", "t", "s", "-", "2">> }

OldVersion == <<"v", "1">>

\* A cache created by something else on the same origin
StrayCacheName == <<"t", "m", "p">>

(***************************************************************************)
(* URLs and requests                                                       *)
(***************************************************************************)

SelfOrigin == <<"h", ":", "/", "/", "m", "e">>

OtherOrigin == <<"h", ":", "/", "/", "c", "d", "n">>

PathPage == <<"/", "p">>

PathOffline == <<"/", "o", "f", "f", "l", "i", "n", "e">>

PathAssetJs ==
    <<"/", "a", "s", "s", "e", "t", "s", "/", "a", "p", "p", "-", "a", "1", ".", "j", "s">>

PathAssetCss ==
    <<"/", "a", "s", "s", "e", "t", "s", "/", "a", "p", "p", "-", "9", "f", ".", "c", "s", "s">>

\* near misses of the hashed-asset pattern
PathAssetNoHash ==
    <<"/", "a", "s", "s", "e", "t", "s", "/", "a", "p", "p", "-", ".", "j", "s">>

PathAssetJson ==
    <<"/", "a", "s", "s", "e", "t", "s", "/", "a", "p", "p", "-", "a", "1", ".", "j", "s", "o", "n">>

PathAssetQuery ==
    <<"/", "a", "s", "s", "e", "t", "s", "/", "a", "p", "p", "-", "a", "1", ".", "j", "s", "?", "v">>

PathImage == <<"/", "i", ".", "p", "n", "g">>

PathManifest == <<"/", "m", "f">>

PathAppCss == <<"/", "a", ".", "c", "s", "s">>

PathAppJs == <<"/", "a", ".", "j", "s">>

AllPaths == {PathPage, PathOffline, PathAssetJs, PathAssetCss, PathAssetNoHash,
             PathAssetJson, PathAssetQuery, PathImage}

Url(o, p) == [origin |-> o, path |-> p]

\* request.url as a string
Href(url) == url.origin \o url.path

\* Accept header values: absent, or a list of media types
AcceptNone == <<>>

AcceptAny == <<"*/*">>

AcceptHtml == <<"text/html", "*/*">>

AllRequests ==
    [url    : {Url(o, p) : o \in {SelfOrigin, OtherOrigin}, p \in AllPaths},
     method : {"GET", "POST"},
     mode   : {"navigate", "no-cors"},
     accept : {AcceptNone, AcceptAny, AcceptHtml}]

NoRequest ==
    [url |-> Url(<<>>, <<>>), method |-> "", mode |-> "", accept |-> AcceptNone]

(***************************************************************************)
(* isHashedAsset: /\/assets\/app-[a-f0-9]+\.(js|css)$/.test(url)           *)
(***************************************************************************)

HashedAssetLit == <<"/", "a", "s", "s", "e", "t", "s", "/", "a", "p", "p", "-">>

isHashedAsset(url) ==
    \E i \in 1..Len(url) :
        /\ MatchAt(url, i, HashedAssetLit)
        /\ \E n \in 1..Len(url) :
              LET h == i + Len(HashedAssetLit)
              IN  /\ h + n <= Len(url)
                  /\ \A k \in h..(h + n - 1) : url[k] \in HexChars
                  /\ url[h + n] = "."
                  /\ \/ Drop(url, h + n + 1) = <<"j", "s">>
                     \/ Drop(url, h + n + 1) = <<"c", "s", "s">>

\* (request.headers.get("Accept") || "").includes("text/html")
AcceptsHtml(request) == \E k \in 1..Len(request.accept) : request.accept[k] = "text/html"

(***************************************************************************)
(* Router: the chain of tests at the top of the fetch listener             *)
(***************************************************************************)

RouteAssetFirst(request) ==
    IF request.url.origin # SelfOrigin \/ request.method # "GET" THEN "bypass"
    ELSE IF isHashedAsset(Href(request.url)) THEN "asset"
    ELSE IF request.mode = "navigate" \/ AcceptsHtml(request) THEN "navigation"
    ELSE "generic"

Route(request) ==
    IF request.url.origin # SelfOrigin \/ request.method # "GET" THEN "bypass"
    ELSE IF request.mode = "navigate" \/ AcceptsHtml(request) THEN "navigation"
    ELSE IF isHashedAsset(Href(request.url)) THEN "asset"
    ELSE "generic"

(***************************************************************************)
(* Responses and the CacheStorage / Cache objects                          *)
(***************************************************************************)

\* src tells where a response came from: "install" (stored by addAll during
\* install), "seed" (stored before this worker version), "network", "preload"
Resp(kind, url, src) == [kind |-> kind, url |-> url, src |-> src]

None == Resp("none", Url(<<>>, <<>>), "")

\* new Response("Offline", {status: 503, ...})
OfflineResponse == Resp("503-offline", Url(<<>>, <<>>), "")

\* the outcome of a respondWith promise that rejected
Rejected == Resp("rejected", Url(<<>>, <<>>), "")

SelfUrl(p) == Url(SelfOrigin, p)

Range(s) == {s[i] : i \in 1..Len(s)}

SelectKeyNot(entries, key) == SelectSeq(entries, LAMBDA e : e.key # key)

\* a put that keeps an existing entry of the key
CachePutIfAbsent(entries, key, resp) ==
    IF \E i \in 1..Len(entries) : entries[i].key = key THEN entries
    ELSE Append(entries, [key |-> key, resp |-> resp])

\* Cache.put: an existing entry of the key is removed, the new one appended
CachePut(entries, key, resp) ==
    Append(SelectKeyNot(entries, key), [key |-> key, resp |-> resp])

RECURSIVE CachePutAll(_, _, _)
\* Cache.addAll after all its fetches succeeded: one put per URL, in order
CachePutAll(entries, keys, src) ==
    IF keys = <<>> THEN entries
    ELSE CachePutAll(CachePut(entries, Head(keys), Resp("http", Head(keys), src)),
                     Tail(keys), src)

\* Cache.match
CacheMatch(entries, key) ==
    IF \E i \in 1..Len(entries) : entries[i].key = key
    THEN entries[CHOOSE i \in 1..Len(entries) : entries[i].key = key].resp
    ELSE None

\* caches.match: the first cache, in creation order, that holds the key
CachesMatch(order, st, key) ==
    IF \E i \in 1..Len(order) : CacheMatch(st[order[i]], key) # None
    THEN LET i == CHOOSE k \in 1..Len(order) :
                     /\ CacheMatch(st[order[k]], key) # None
                     /\ \A m \in 1..(k - 1) : CacheMatch(st[order[m]], key) = None
         IN  CacheMatch(st[order[i]], key)
    ELSE None

\* caches.open: creates the cache when it does not exist
OpenOrder(order, name) == IF name \in Range(order) THEN order ELSE Append(order, name)

OpenStore(order, st, name) ==
    IF name \in Range(order) THEN st
    ELSE [n \in Range(order) \cup {name} |-> IF n = name THEN <<>> ELSE st[n]]

\* caches.delete
DeleteOrder(order, name) == SelectSeq(order, LAMBDA n : n # name)

DeleteStore(order, st, name) == [n \in Range(order) \ {name} |-> st[n]]

(***************************************************************************)
(* State                                                                   *)
(***************************************************************************)

\* number of requests the fetch listener may be working on at once
MaxReq == 2

\* number of fetch events dispatched in one behaviour
MaxIntercepts == 2

Slots == 1..MaxReq

\* milliseconds by which the time a navigation has been racing advances
TickMs == 2500

ReqIdle ==
    [pc |-> "idle", request |-> NoRequest, decision |-> "", respondWith |-> FALSE,
     cachedResponse |-> None, net |-> "none", netResp |-> None, timer |-> "off",
     elapsed |-> 0, response |-> None, fetches |-> 0, afterNet |-> FALSE,
     bg |-> "none", storeFailed |-> FALSE, lookupFailed |-> FALSE]

\* the two calls with the maxima exchanged
TrimCallsSwapped ==
    << [cacheName |-> pagesCacheName, maxItems |-> maxImages],
       [cacheName |-> imageCacheName, maxItems |-> maxPages] >>

\* the two trimCache calls of the message listener, in the order it makes them
TrimCalls ==
    << [cacheName |-> pagesCacheName, maxItems |-> maxPages],
       [cacheName |-> imageCacheName, maxItems |-> maxImages] >>

TrimIds == 1..Len(TrimCalls)

\* a trimCache call: before is the cache's content when the call was made,
\* key the keys[0] it read last, deleted the keys it has deleted
TrimIdle ==
    [pc |-> "idle", cacheName |-> <<>>, maxItems |-> 0, before |-> <<>>,
     key |-> NoRequest.url, failed |-> FALSE, deleted |-> <<>>]

NoMessage == <<>>

Clients == {"c1", "c2"}

ClientUrl(c) == IF c = "c1" THEN SelfUrl(PathPage) ELSE SelfUrl(PathOffline)

VARIABLES
    version,       \* APP_VERSION of this build of the worker
    clientsOpen,   \* window clients of the origin, controlled or not
    cacheOrder,    \* names of the existing caches, in creation order
    store,         \* cache name -> entries, in insertion order
    inbox,         \* client -> messages posted to it by this worker
    inst,          \* the install listener's async function
    opt,           \* the un-awaited assetCache.addAll(["/app.webmanifest"])
    act,           \* the activate listener's async function
    navPreload,    \* registration.navigationPreload
    reqs,          \* slot -> the fetch listener's work for one intercepted request
    servedFromNet, \* URLs the Immutable-Asset strategy has answered from the network
    intercepted,   \* number of fetch events dispatched so far
    trims,         \* call in the message listener -> that trimCache call's progress
    lastMessage,   \* the command of the message the message listener handled last
    storage        \* "faulty" when operations on the caches trimCache uses may reject

vars == <<version, clientsOpen, cacheOrder, store, inbox, inst, opt, act, navPreload,
          reqs, servedFromNet, intercepted, trims, lastMessage, storage>>

trimVars == <<trims, lastMessage, storage>>

fetchVars == <<reqs, servedFromNet, intercepted, trimVars>>

lifeVars == <<version, clientsOpen, inbox, inst, opt, act>>

assetCacheName == AssetsPrefix \o version

OldAssetCacheName == AssetsPrefix \o OldVersion

cacheList == {assetCacheName, pagesCacheName, imageCacheName}

(***************************************************************************)
(* install listener: updateAssetCache(), cacheClients(), skipWaiting()     *)
(***************************************************************************)

RequiredUrls == <<SelfUrl(PathAppCss), SelfUrl(PathAppJs), SelfUrl(PathOffline)>>

OptionalUrls == <<SelfUrl(PathManifest)>>

\* const pages = []; for (const client of allClients) pages.push(client.url)
ClientUrls(cs) ==
    (IF "c1" \in cs THEN <<ClientUrl("c1")>> ELSE <<>>)
        \o (IF "c2" \in cs THEN <<ClientUrl("c2")>> ELSE <<>>)

\* the install event is dispatched
InstallStart ==
    /\ inst.pc = "idle"
    /\ inst' = [inst EXCEPT !.pc = "ua_open"]
    /\ UNCHANGED <<version, clientsOpen, cacheOrder, store, inbox, opt, act, navPreload, fetchVars>>

\* updateAssetCache: caches.open(assetCacheName) resolves; the optional addAll
\* is started and not awaited
UpdateAssetCacheOpen ==
    /\ inst.pc = "ua_open"
    /\ cacheOrder' = OpenOrder(cacheOrder, assetCacheName)
    /\ store' = OpenStore(cacheOrder, store, assetCacheName)
    /\ opt' = "pending"
    /\ inst' = [inst EXCEPT !.pc = "ua_required"]
    /\ UNCHANGED <<version, clientsOpen, inbox, act, navPreload, fetchVars>>

\* updateAssetCache: caches.open rejects; the catch logs and the function
\* returns undefined
UpdateAssetCacheOpenFail ==
    /\ inst.pc = "ua_open"
    /\ inst' = [inst EXCEPT !.pc = "cc_matchAll", !.openFailed = TRUE]
    /\ UNCHANGED <<version, clientsOpen, cacheOrder, store, inbox, opt, act, navPreload, fetchVars>>

\* updateAssetCache: the awaited addAll of the required URLs resolves
UpdateAssetCacheRequired ==
    /\ inst.pc = "ua_required"
    /\ store' = [store EXCEPT ![assetCacheName] = CachePutAll(@, RequiredUrls, "install")]
    /\ inst' = [inst EXCEPT !.pc = "cc_matchAll"]
    /\ UNCHANGED <<version, clientsOpen, cacheOrder, inbox, opt, act, navPreload, fetchVars>>

\* updateAssetCache: the awaited addAll rejects (a fetch or a store failed,
\* nothing is stored); the catch logs and the function returns undefined
UpdateAssetCacheRequiredFail ==
    /\ inst.pc = "ua_required"
    /\ inst' = [inst EXCEPT !.pc = "cc_matchAll", !.requiredFailed = TRUE]
    /\ UNCHANGED <<version, clientsOpen, cacheOrder, store, inbox, opt, act, navPreload, fetchVars>>

\* the un-awaited assetCache.addAll(["/app.webmanifest"]) settles, at any time
OptionalPrecacheSettle ==
    /\ opt = "pending"
    /\ \/ /\ opt' = "stored"
          /\ store' = [store EXCEPT ![assetCacheName] = CachePutAll(@, OptionalUrls, "install")]
       \/ /\ opt' = "failed"
          /\ UNCHANGED store
    /\ UNCHANGED <<version, clientsOpen, cacheOrder, inbox, inst, act, navPreload, fetchVars>>

\* cacheClients: clients.matchAll({includeUncontrolled: true}) resolves
CacheClientsMatchAll ==
    /\ inst.pc = "cc_matchAll"
    /\ inst' = [inst EXCEPT !.pc = "cc_open", !.pages = ClientUrls(clientsOpen)]
    /\ UNCHANGED <<version, clientsOpen, cacheOrder, store, inbox, opt, act, navPreload, fetchVars>>

\* cacheClients: caches.open(pagesCacheName) resolves
CacheClientsOpen ==
    /\ inst.pc = "cc_open"
    /\ cacheOrder' = OpenOrder(cacheOrder, pagesCacheName)
    /\ store' = OpenStore(cacheOrder, store, pagesCacheName)
    /\ inst' = [inst EXCEPT !.pc = "cc_addAll"]
    /\ UNCHANGED <<version, clientsOpen, inbox, opt, act, navPreload, fetchVars>>

\* cacheClients: pagesCache.addAll(pages) resolves
CacheClientsAddAll ==
    /\ inst.pc = "cc_addAll"
    /\ store' = [store EXCEPT ![pagesCacheName] = CachePutAll(@, inst.pages, "install")]
    /\ inst' = [inst EXCEPT !.pc = "skipWaiting"]
    /\ UNCHANGED <<version, clientsOpen, cacheOrder, inbox, opt, act, navPreload, fetchVars>>

\* what a propagated rejection inside cacheClients would do
CacheClientsRethrow ==
    /\ inst.pc \in {"cc_matchAll", "cc_open", "cc_addAll"}
    /\ inst' = [inst EXCEPT !.pc = "done", !.snapshotFailedAt = inst.pc, !.result = "rejected"]
    /\ UNCHANGED <<version, clientsOpen, cacheOrder, store, inbox, opt, act, navPreload, fetchVars>>

\* cacheClients: matchAll, open or addAll rejects; the catch logs and the
\* function returns undefined
CacheClientsFail ==
    /\ inst.pc \in {"cc_matchAll", "cc_open", "cc_addAll"}
    /\ inst' = [inst EXCEPT !.pc = "skipWaiting", !.snapshotFailedAt = inst.pc]
    /\ UNCHANGED <<version, clientsOpen, cacheOrder, store, inbox, opt, act, navPreload, fetchVars>>

\* globalThis.skipWaiting(); the async function returns and the promise given
\* to event.waitUntil resolves
SkipWaiting ==
    /\ inst.pc = "skipWaiting"
    /\ inst' = [inst EXCEPT !.pc = "done", !.skipWaiting = TRUE, !.result = "resolved"]
    /\ UNCHANGED <<version, clientsOpen, cacheOrder, store, inbox, opt, act, navPreload, fetchVars>>

Install ==
    \/ InstallStart
    \/ UpdateAssetCacheOpen
    \/ UpdateAssetCacheOpenFail
    \/ UpdateAssetCacheRequired
    \/ UpdateAssetCacheRequiredFail
    \/ OptionalPrecacheSettle
    \/ CacheClientsMatchAll
    \/ CacheClientsOpen
    \/ CacheClientsAddAll
    \/ CacheClientsFail
    \/ SkipWaiting

(***************************************************************************)
(* activate listeners: clearOldCaches(), clients.claim(), notifyClients()  *)
(* and registration.navigationPreload.enable()                             *)
(***************************************************************************)

\* keys.filter((key) => !cacheList.has(key)), with only the assets caches
\* of other versions regarded as stale
StaleKeysAssetsOnly(keys) ==
    {k \in keys : MatchAt(k, 1, AssetsPrefix) /\ k # assetCacheName}

\* keys.filter((key) => !cacheList.has(key))
StaleKeys(keys) == {k \in keys : k \notin cacheList}

\* the activate event is dispatched, once install has resolved and the worker
\* has skipped waiting; both listeners run
ActivateStart ==
    /\ act.pc = "idle"
    /\ inst.result = "resolved"
    /\ act' = [act EXCEPT !.pc = "gc_keys", !.namesBefore = Range(cacheOrder)]
    /\ navPreload' = IF navPreload = "disabled" THEN "enabling" ELSE navPreload
    /\ UNCHANGED <<version, clientsOpen, cacheOrder, store, inbox, inst, opt, fetchVars>>

\* registration.navigationPreload.enable() settles
NavigationPreloadEnable ==
    /\ navPreload = "enabling"
    /\ navPreload' \in {"enabled", "failed"}
    /\ UNCHANGED <<version, clientsOpen, cacheOrder, store, inbox, inst, opt, act, fetchVars>>

\* clearOldCaches: caches.keys() resolves; one caches.delete per stale name is
\* started and Promise.all awaits them
ClearOldCachesKeys ==
    /\ act.pc = "gc_keys"
    /\ act' = [act EXCEPT !.pc = "gc_wait", !.pendingDel = StaleKeys(Range(cacheOrder))]
    /\ UNCHANGED <<version, clientsOpen, cacheOrder, store, inbox, inst, opt, navPreload, fetchVars>>

\* clearOldCaches: caches.keys() rejects; the catch logs
ClearOldCachesKeysFail ==
    /\ act.pc = "gc_keys"
    /\ act' = [act EXCEPT !.pc = "claim", !.gcFailed = TRUE, !.gcSettled = TRUE]
    /\ UNCHANGED <<version, clientsOpen, cacheOrder, store, inbox, inst, opt, navPreload, fetchVars>>

\* one caches.delete(key) resolves: the cache is gone
CachesDeleteDone(k) ==
    /\ k \in act.pendingDel
    /\ cacheOrder' = DeleteOrder(cacheOrder, k)
    /\ store' = DeleteStore(cacheOrder, store, k)
    /\ act' = [act EXCEPT !.pendingDel = @ \ {k}]
    /\ UNCHANGED <<version, clientsOpen, inbox, inst, opt, navPreload, fetchVars>>

\* one caches.delete(key) rejects: the cache stays
CachesDeleteFail(k) ==
    /\ k \in act.pendingDel
    /\ act' = [act EXCEPT !.pendingDel = @ \ {k}, !.delRejected = TRUE]
    /\ UNCHANGED <<version, clientsOpen, cacheOrder, store, inbox, inst, opt, navPreload, fetchVars>>

\* clearOldCaches: Promise.all settles, resolved once every delete resolved,
\* rejected as soon as one rejected (the catch logs; deletes still pending go on)
ClearOldCachesSettle ==
    /\ act.pc = "gc_wait"
    /\ act.pendingDel = {} \/ act.delRejected
    /\ act' = [act EXCEPT !.pc = "claim", !.gcSettled = TRUE, !.gcFailed = act.delRejected]
    /\ UNCHANGED <<version, clientsOpen, cacheOrder, store, inbox, inst, opt, navPreload, fetchVars>>

\* clients.claim() called without awaiting clearOldCaches()
ClientsClaimEarly ==
    /\ act.pc \in {"gc_keys", "gc_wait", "claim"}
    /\ act' = [act EXCEPT !.pc = "notify", !.claimed = TRUE]
    /\ UNCHANGED <<version, clientsOpen, cacheOrder, store, inbox, inst, opt, navPreload, fetchVars>>

\* await clients.claim() resolves
ClientsClaim ==
    /\ act.pc = "claim"
    /\ act' = [act EXCEPT !.pc = "notify", !.claimed = TRUE]
    /\ UNCHANGED <<version, clientsOpen, cacheOrder, store, inbox, inst, opt, navPreload, fetchVars>>

SwUpdated(v) == [command |-> "SW_UPDATED", version |-> v]

\* for (const client of allClients) client.postMessage(msg)
PostToAll(box, cs, msg) ==
    [c \in Clients |-> IF c \in cs THEN Append(box[c], msg) ELSE box[c]]

\* notifyClients: clients.matchAll resolves and the loop posts to every client;
\* the async function of the activate listener returns
NotifyClients ==
    /\ act.pc = "notify"
    /\ inbox' = PostToAll(inbox, clientsOpen,
                          SwUpdated(StringReplaceFirst(assetCacheName, AssetsPrefix)))
    /\ act' = [act EXCEPT !.pc = "done", !.notified = TRUE, !.result = "resolved"]
    /\ UNCHANGED <<version, clientsOpen, cacheOrder, store, inst, opt, navPreload, fetchVars>>

\* notifyClients: clients.matchAll rejects; nothing catches it and the promise
\* given to event.waitUntil rejects
NotifyClientsFail ==
    /\ act.pc = "notify"
    /\ act' = [act EXCEPT !.pc = "done", !.result = "rejected"]
    /\ UNCHANGED <<version, clientsOpen, cacheOrder, store, inbox, inst, opt, navPreload, fetchVars>>

Activate ==
    \/ ActivateStart
    \/ NavigationPreloadEnable
    \/ ClearOldCachesKeys
    \/ ClearOldCachesKeysFail
    \/ \E k \in Range(cacheOrder) : CachesDeleteDone(k)
    \/ \E k \in Range(cacheOrder) : CachesDeleteFail(k)
    \/ ClearOldCachesSettle
    \/ ClientsClaim
    \/ NotifyClients
    \/ NotifyClientsFail

(***************************************************************************)
(* Lifecycle specification: one worker version from install to activated   *)
(***************************************************************************)

InstIdle ==
    [pc |-> "idle", result |-> "pending", openFailed |-> FALSE, requiredFailed |-> FALSE,
     snapshotFailedAt |-> "", skipWaiting |-> FALSE, pages |-> <<>>]

ActIdle ==
    [pc |-> "idle", result |-> "pending", namesBefore |-> {}, pendingDel |-> {},
     delRejected |-> FALSE, gcFailed |-> FALSE, gcSettled |-> FALSE,
     claimed |-> FALSE, notified |-> FALSE]

\* cache storage a previous version of the worker (or the page) may have left:
\* any of its caches, in the order that version created them
PriorCacheOrders ==
    {o \in {SelectSeq(<<OldAssetCacheName, pagesCacheName, imageCacheName, StrayCacheName>>,
                      LAMBDA n : n \in S) :
            S \in SUBSET {OldAssetCacheName, pagesCacheName, imageCacheName, StrayCacheName}} :
        TRUE}

PriorEntries(name) ==
    IF name = pagesCacheName
    THEN <<[key |-> SelfUrl(PathPage), resp |-> Resp("http", SelfUrl(PathPage), "seed")]>>
    ELSE IF name = OldAssetCacheName
    THEN <<[key |-> SelfUrl(PathOffline), resp |-> Resp("http", SelfUrl(PathOffline), "seed")]>>
    ELSE <<>>

LifeInit ==
    /\ version \in CurVersions
    /\ clientsOpen \in SUBSET Clients
    /\ cacheOrder \in PriorCacheOrders
    /\ store = [n \in Range(cacheOrder) |-> PriorEntries(n)]
    /\ inbox = [c \in Clients |-> <<>>]
    /\ inst = InstIdle
    /\ opt = "idle"
    /\ act = ActIdle
    /\ navPreload \in {"unsupported", "disabled"}
    /\ reqs = [r \in Slots |-> ReqIdle]
    /\ servedFromNet = {}
    /\ intercepted = 0
    /\ trims = [t \in TrimIds |-> TrimIdle]
    /\ lastMessage = NoMessage
    /\ storage = "faulty"

LifeNext == Install \/ Activate

SpecLife == LifeInit /\ [][LifeNext]_vars

(***************************************************************************)
(* Claims about the lifecycle, checked under SpecLife                      *)
(***************************************************************************)

\* C1: if the fetch or store of a required precache URL fails during install,
\* the install promise rejects, and this worker version never reaches
\* skipWaiting or activate.
C1_RequiredFailureRejectsInstall ==
    inst.requiredFailed =>
        /\ ~inst.skipWaiting
        /\ inst.result # "resolved"
        /\ act.pc = "idle"

\* C2: a failure of the optional precache or of the client snapshot (matchAll,
\* opening pages, addAll of the client URLs) never makes install reject; when
\* the install function has finished it has resolved and called skipWaiting.
C2_BestEffortFailureNeverRejects ==
    (opt = "failed" \/ inst.snapshotFailedAt # "") =>
        /\ inst.result # "rejected"
        /\ inst.pc = "done" => (inst.result = "resolved" /\ inst.skipWaiting)

C2_Witness ==
    /\ opt = "failed"
    /\ inst.snapshotFailedAt = "cc_addAll"
    /\ inst.result = "resolved"
    /\ inst.skipWaiting

NoStorageFailure ==
    /\ ~inst.openFailed
    /\ ~inst.requiredFailed
    /\ inst.snapshotFailedAt = ""
    /\ ~act.gcFailed
    /\ ~act.delRejected

AssetCaches(names) == {n \in names : MatchAt(n, 1, AssetsPrefix)}

C4_ClaimAfterBroadcast ==
    act.claimed => (act.gcSettled /\ act.notified)

\* C4 amended: clearOldCaches settles first (every deletion completed, unless
\* caches.keys or a deletion failed and the catch ended the wait), then clients
\* are claimed, and only then is the version broadcast; clients are never
\* claimed while clearOldCaches is pending, and nothing is broadcast before
\* the claim.
C4_GcThenClaimThenBroadcast ==
    /\ act.claimed => act.gcSettled
    /\ (act.claimed /\ ~act.gcFailed) => act.pendingDel = {}
    /\ act.notified => act.claimed
    /\ (\E c \in Clients : inbox[c] # <<>>) => act.claimed

C4_Witness ==
    /\ act.notified
    /\ act.claimed
    /\ ~act.gcFailed
    /\ OldAssetCacheName \in act.namesBefore
    /\ OldAssetCacheName \notin Range(cacheOrder)
    /\ inbox["c1"] # <<>>

\* C5: in an activation that completes, every open client has received exactly
\* one {command: "SW_UPDATED", version: v}, v being the assets cache name
\* without its "assets-" prefix; no client ever holds two, a client that is not
\* open holds none, and none is posted before the broadcast step of activate.
C5_OneSwUpdatedPerClient ==
    /\ \A c \in Clients :
          /\ Len(inbox[c]) <= 1
          /\ \A i \in 1..Len(inbox[c]) : inbox[c][i] = SwUpdated(version)
          /\ c \notin clientsOpen => inbox[c] = <<>>
          /\ inbox[c] # <<>> => (act.pc = "done" /\ act.notified)
    /\ act.result = "resolved" => \A c \in clientsOpen : Len(inbox[c]) = 1

C5_Witness ==
    /\ act.result = "resolved"
    /\ clientsOpen = Clients
    /\ version = <<"a", "s", "s", "e", "t", "s", "-", "2">>
    /\ \A c \in Clients : inbox[c] = <<SwUpdated(version)>>

(***************************************************************************)
(* fetch listener: router                                                  *)
(***************************************************************************)

\* new Response("Network error", {status: 503, ...})
NetworkErrorResponse == Resp("503-network-error", Url(<<>>, <<>>), "")

Pending(q) == q.net \in {"preload", "fetching"}

\* The listener runs for a request: it returns without respondWith (bypass), or
\* calls respondWith with the async function of the strategy the router picked.
\* Slots only name the requests in flight: a new one takes the lowest free slot
Intercept(r, request) ==
    /\ reqs[r].pc = "idle"
    /\ \A s \in Slots : s < r => reqs[s].pc # "idle"
    /\ intercepted < MaxIntercepts
    /\ intercepted' = intercepted + 1
    /\ reqs' = [reqs EXCEPT ![r] =
          [ReqIdle EXCEPT
              !.request = request,
              !.decision = Route(request),
              !.respondWith = (Route(request) # "bypass"),
              !.afterNet = (request.url \in servedFromNet),
              !.pc = CASE Route(request) = "bypass" -> "done"
                       [] Route(request) = "navigation" -> "nav_match"
                       [] Route(request) = "asset" -> "asset_match"
                       [] OTHER -> "generic_match"]]
    /\ UNCHANGED <<lifeVars, trimVars, navPreload, cacheOrder, store, servedFromNet>>

\* the request is over (response delivered or bypassed, and its network fetch
\* and background store, if any, settled): the slot is free for another request
Release(r) ==
    /\ reqs[r].pc = "done"
    /\ ~Pending(reqs[r])
    /\ reqs[r].bg \notin {"open", "put"}
    /\ reqs' = [reqs EXCEPT ![r] = ReqIdle]
    /\ UNCHANGED <<intercepted, lifeVars, trimVars, navPreload, cacheOrder, store, servedFromNet>>

(***************************************************************************)
(* The network side of a request: event.preloadResponse and fetch(request) *)
(***************************************************************************)

\* event.preloadResponse is a response for a navigation when navigation
\* preload is enabled, undefined otherwise
HasPreload(q) == navPreload = "enabled" /\ q.request.mode = "navigate"

\* the catch preferring the offline page to the cached response
NavCatchOfflineFirst(q) == [q EXCEPT !.pc = "nav_offline"]

\* catch of the navigation branch (networkFetch rejected, or the timer did):
\* cachedResponse is returned if there is one, else the function goes on to
\* caches.match("/offline")
NavCatch(q) ==
    [q EXCEPT !.response = q.cachedResponse,
              !.pc = IF q.cachedResponse # None THEN "done" ELSE "nav_offline"]

\* /\.(jpe?g|png|gif|svg|webp)/.test(url): one of the extensions, anywhere in
\* the URL
ImageExtensionLits ==
    { <<".", "j", "p", "g">>, <<".", "j", "p", "e", "g">>, <<".", "p", "n", "g">>,
      <<".", "g", "i", "f">>, <<".", "s", "v", "g">>, <<".", "w", "e", "b", "p">> }

IsImageUrl(url) == \E lit \in ImageExtensionLits : Includes(url, lit)

\* new Response(placeholderImage, {headers: ...})
PlaceholderResponse == Resp("200-placeholder-image", Url(<<>>, <<>>), "")

\* the headers the listener gives the responses it synthesizes
SynthesizedHeaders(resp) ==
    IF resp = PlaceholderResponse
    THEN [ContentType |-> "image/svg+xml", CacheControl |-> "no-store"]
    ELSE [ContentType |-> "text/plain", CacheControl |-> ""]

\* the fallback without the placeholder image
GenericFallbackAlways503(request) == NetworkErrorResponse

\* OFFLINE IMAGE, else the synthesized 503 (lines 293-306 and 314-327)
GenericFallback(request) ==
    IF IsImageUrl(Href(request.url)) THEN PlaceholderResponse ELSE NetworkErrorResponse

\* fetchPromise settled (bg is "resolved" with responseFromFetch, or "null"):
\* a function that awaits it after a cache miss returns the response, or the
\* fallback for null; one that returned the cached response is not waiting
GenericFetchPromiseSettled(q) ==
    IF q.pc = "generic_await"
    THEN [q EXCEPT !.response = IF q.bg = "resolved" THEN q.netResp
                                ELSE GenericFallback(q.request),
                   !.pc = "done"]
    ELSE q

\* the callbacks with every response stored, of an image URL or not
GenericThenStoreAll(q) ==
    IF q.net = "ok" THEN [q EXCEPT !.bg = "open"]
    ELSE GenericFetchPromiseSettled([q EXCEPT !.bg = "null"])

\* .then and .catch of fetch(request) in the generic branch: a response of an
\* image URL is to be stored first, any other resolves fetchPromise; a
\* rejection resolves it with null
GenericThen(q) ==
    IF q.net = "ok"
    THEN IF IsImageUrl(Href(q.request.url)) THEN [q EXCEPT !.bg = "open"]
         ELSE GenericFetchPromiseSettled([q EXCEPT !.bg = "resolved"])
    ELSE GenericFetchPromiseSettled([q EXCEPT !.bg = "null"])

\* a settled network promise whose response is stored even after the timer
\* answered the navigation
AfterNetworkLateStore(q) ==
    IF q.net = "ok" /\ q.decision = "navigation" THEN [q EXCEPT !.pc = "nav_open"]
    ELSE IF q.pc \in {"nav_race", "nav_await"} THEN NavCatch(q)
    ELSE q

\* The continuation of whoever awaits the settled network promise; it runs in
\* the same turn as the settling.  Navigation: the try block goes on to the
\* store, or the catch runs.  Hashed asset: clone and caches.open, or the
\* catch returns the synthesized 503.  Generic: the .then or .catch callback.
\* A navigation that was already answered by the timer ignores it.
AfterNetwork(q) ==
    IF q.pc \in {"nav_race", "nav_await"}
    THEN IF q.net = "ok" THEN [q EXCEPT !.pc = "nav_open"] ELSE NavCatch(q)
    ELSE IF q.pc = "asset_fetch"
    THEN IF q.net = "ok" THEN [q EXCEPT !.pc = "asset_open"]
         ELSE [q EXCEPT !.response = NetworkErrorResponse, !.pc = "done"]
    ELSE IF q.decision = "generic" THEN GenericThen(q)
    ELSE q

\* networkFetch starts: with a preload response pending it awaits that one,
\* without one (undefined) it calls fetch(request)
StartNetworkFetch(q) ==
    IF HasPreload(q) THEN [q EXCEPT !.net = "preload"]
    ELSE [q EXCEPT !.net = "fetching", !.fetches = @ + 1]

\* event.preloadResponse settles: it is the result, or the rejection, of
\* networkFetch
PreloadSettle(r) ==
    /\ reqs[r].net = "preload"
    /\ \/ reqs' = [reqs EXCEPT ![r] = AfterNetwork(
                      [reqs[r] EXCEPT !.net = "ok",
                                      !.netResp = Resp("http", reqs[r].request.url, "preload")])]
       \/ reqs' = [reqs EXCEPT ![r] = AfterNetwork([reqs[r] EXCEPT !.net = "failed"])]
    /\ UNCHANGED <<intercepted, lifeVars, trimVars, navPreload, cacheOrder, store, servedFromNet>>

\* fetch(request) settles: a response, or a network error
FetchSettle(r) ==
    /\ reqs[r].net = "fetching"
    /\ \/ reqs' = [reqs EXCEPT ![r] = AfterNetwork(
                      [reqs[r] EXCEPT !.net = "ok",
                                      !.netResp = Resp("http", reqs[r].request.url, "network")])]
       \/ reqs' = [reqs EXCEPT ![r] = AfterNetwork([reqs[r] EXCEPT !.net = "failed"])]
    /\ UNCHANGED <<intercepted, lifeVars, trimVars, navPreload, cacheOrder, store, servedFromNet>>

(***************************************************************************)
(* Navigation strategy (lines 163-218)                                     *)
(***************************************************************************)

\* caches.match(request) resolves and networkFetch is started; the timer is
\* raced whether or not a cached response was found
NavMatchAlwaysRace(r) ==
    /\ reqs[r].pc = "nav_match"
    /\ reqs' = [reqs EXCEPT ![r] = StartNetworkFetch(
          [reqs[r] EXCEPT
              !.cachedResponse = CachesMatch(cacheOrder, store, reqs[r].request.url),
              !.timer = "armed",
              !.pc = "nav_race"])]
    /\ UNCHANGED <<intercepted, lifeVars, trimVars, navPreload, cacheOrder, store, servedFromNet>>

\* caches.match(request) resolves and networkFetch is started; with a cached
\* response the timer is armed and raced, without one networkFetch is awaited
NavMatch(r) ==
    /\ reqs[r].pc = "nav_match"
    /\ LET c == CachesMatch(cacheOrder, store, reqs[r].request.url)
       IN  reqs' = [reqs EXCEPT ![r] = StartNetworkFetch(
               [reqs[r] EXCEPT
                   !.cachedResponse = c,
                   !.timer = IF c # None THEN "armed" ELSE "off",
                   !.pc = IF c # None THEN "nav_race" ELSE "nav_await"])]
    /\ UNCHANGED <<intercepted, lifeVars, trimVars, navPreload, cacheOrder, store, servedFromNet>>

\* caches.match(request) rejects, outside the try: the respondWith promise rejects
NavMatchFail(r) ==
    /\ reqs[r].pc = "nav_match"
    /\ reqs' = [reqs EXCEPT ![r].response = Rejected, ![r].lookupFailed = TRUE,
                            ![r].pc = "done"]
    /\ UNCHANGED <<intercepted, lifeVars, trimVars, navPreload, cacheOrder, store, servedFromNet>>

\* time passes while the race is on
NavTick(r) ==
    /\ reqs[r].pc = "nav_race"
    /\ reqs[r].elapsed < timeout
    /\ reqs' = [reqs EXCEPT ![r].elapsed = @ + TickMs]
    /\ UNCHANGED <<intercepted, lifeVars, trimVars, navPreload, cacheOrder, store, servedFromNet>>

\* the delay with the timeout taken for seconds
NavTimerDelaySeconds == timeout \div 1000

\* the delay given to setTimeout
NavTimerDelay == timeout

\* the timer fires while networkFetch is pending: the race rejects and the
\* catch runs
NavTimerFire(r) ==
    /\ reqs[r].pc = "nav_race"
    /\ reqs[r].timer = "armed"
    /\ Pending(reqs[r])
    /\ reqs[r].elapsed >= NavTimerDelay
    /\ reqs' = [reqs EXCEPT ![r] = NavCatch([reqs[r] EXCEPT !.timer = "fired"])]
    /\ UNCHANGED <<intercepted, lifeVars, trimVars, navPreload, cacheOrder, store, servedFromNet>>

\* caches.open(pagesCacheName) resolves
NavOpen(r) ==
    /\ reqs[r].pc = "nav_open"
    /\ cacheOrder' = OpenOrder(cacheOrder, pagesCacheName)
    /\ store' = OpenStore(cacheOrder, store, pagesCacheName)
    /\ reqs' = [reqs EXCEPT ![r].pc = "nav_put"]
    /\ UNCHANGED <<intercepted, lifeVars, trimVars, navPreload, servedFromNet>>

\* pagesCache.put(request, copy) resolves; responseFromNetwork is returned
NavPut(r) ==
    /\ reqs[r].pc = "nav_put"
    /\ store' = [store EXCEPT ![pagesCacheName] =
                    CachePut(@, reqs[r].request.url, reqs[r].netResp)]
    /\ reqs' = [reqs EXCEPT ![r].response = reqs[r].netResp, ![r].pc = "done"]
    /\ UNCHANGED <<intercepted, lifeVars, trimVars, navPreload, cacheOrder, servedFromNet>>

\* caches.open or put rejects: the inner catch logs; responseFromNetwork is
\* returned
NavStoreFail(r) ==
    /\ reqs[r].pc \in {"nav_open", "nav_put"}
    /\ reqs' = [reqs EXCEPT ![r].response = reqs[r].netResp, ![r].storeFailed = TRUE,
                            ![r].pc = "done"]
    /\ UNCHANGED <<intercepted, lifeVars, trimVars, navPreload, cacheOrder, store, servedFromNet>>

\* caches.match("/offline") resolves: its entry, else the synthesized 503
NavOffline(r) ==
    /\ reqs[r].pc = "nav_offline"
    /\ LET off == CachesMatch(cacheOrder, store, SelfUrl(PathOffline))
       IN  reqs' = [reqs EXCEPT
               ![r].response = IF off # None THEN off ELSE OfflineResponse,
               ![r].pc = "done"]
    /\ UNCHANGED <<intercepted, lifeVars, trimVars, navPreload, cacheOrder, store, servedFromNet>>

\* caches.match("/offline") rejects inside the catch: the respondWith promise
\* rejects
NavOfflineFail(r) ==
    /\ reqs[r].pc = "nav_offline"
    /\ reqs' = [reqs EXCEPT ![r].response = Rejected, ![r].pc = "done"]
    /\ UNCHANGED <<intercepted, lifeVars, trimVars, navPreload, cacheOrder, store, servedFromNet>>

(***************************************************************************)
(* Immutable-Asset strategy (lines 222-248)                                *)
(***************************************************************************)

\* caches.match(request) resolves: a hit is returned, a miss calls fetch(request)
AssetMatch(r) ==
    /\ reqs[r].pc = "asset_match"
    /\ LET c == CachesMatch(cacheOrder, store, reqs[r].request.url)
       IN  reqs' = IF c # None
                   THEN [reqs EXCEPT ![r].cachedResponse = c,
                                     ![r].response = c,
                                     ![r].pc = "done"]
                   ELSE [reqs EXCEPT ![r].net = "fetching",
                                     ![r].fetches = @ + 1,
                                     ![r].pc = "asset_fetch"]
    /\ UNCHANGED <<intercepted, lifeVars, trimVars, navPreload, cacheOrder, store, servedFromNet>>

\* caches.match(request) rejects, outside the try: the respondWith promise rejects
AssetMatchFail(r) ==
    /\ reqs[r].pc = "asset_match"
    /\ reqs' = [reqs EXCEPT ![r].response = Rejected, ![r].lookupFailed = TRUE,
                            ![r].pc = "done"]
    /\ UNCHANGED <<intercepted, lifeVars, trimVars, navPreload, cacheOrder, store, servedFromNet>>

\* caches.open(assetCacheName) resolves
AssetOpen(r) ==
    /\ reqs[r].pc = "asset_open"
    /\ cacheOrder' = OpenOrder(cacheOrder, assetCacheName)
    /\ store' = OpenStore(cacheOrder, store, assetCacheName)
    /\ reqs' = [reqs EXCEPT ![r].pc = "asset_put"]
    /\ UNCHANGED <<intercepted, lifeVars, trimVars, navPreload, servedFromNet>>

\* the response returned without having been stored
AssetPutSkipped(r) ==
    /\ reqs[r].pc = "asset_put"
    /\ servedFromNet' = servedFromNet \cup {reqs[r].request.url}
    /\ reqs' = [reqs EXCEPT ![r].response = reqs[r].netResp, ![r].pc = "done"]
    /\ UNCHANGED <<intercepted, lifeVars, trimVars, navPreload, cacheOrder, store>>

\* assetCache.put(request, copy) resolves; responseFromFetch is returned
AssetPut(r) ==
    /\ reqs[r].pc = "asset_put"
    /\ store' = [store EXCEPT ![assetCacheName] =
                    CachePut(@, reqs[r].request.url, reqs[r].netResp)]
    /\ servedFromNet' = servedFromNet \cup {reqs[r].request.url}
    /\ reqs' = [reqs EXCEPT ![r].response = reqs[r].netResp, ![r].pc = "done"]
    /\ UNCHANGED <<intercepted, lifeVars, trimVars, navPreload, cacheOrder>>

\* caches.open or put rejects: the catch returns the synthesized 503
AssetStoreFail(r) ==
    /\ reqs[r].pc \in {"asset_open", "asset_put"}
    /\ reqs' = [reqs EXCEPT ![r].response = NetworkErrorResponse, ![r].storeFailed = TRUE,
                            ![r].pc = "done"]
    /\ UNCHANGED <<intercepted, lifeVars, trimVars, navPreload, cacheOrder, store, servedFromNet>>

(***************************************************************************)
(* Generic strategy (lines 252-330)                                        *)
(***************************************************************************)

\* caches.match(request) resolves; fetch(request) is called after a miss only
GenericMatchFetchOnMiss(r) ==
    /\ reqs[r].pc = "generic_match"
    /\ LET c == CachesMatch(cacheOrder, store, reqs[r].request.url)
       IN  reqs' = IF c # None
                   THEN [reqs EXCEPT ![r].cachedResponse = c, ![r].response = c,
                                     ![r].pc = "done"]
                   ELSE [reqs EXCEPT ![r].net = "fetching", ![r].fetches = @ + 1,
                                     ![r].pc = "generic_await"]
    /\ UNCHANGED <<intercepted, lifeVars, trimVars, navPreload, cacheOrder, store, servedFromNet>>

\* caches.match(request) resolves and fetch(request) is called; a hit is
\* returned at once, a miss awaits fetchPromise
GenericMatch(r) ==
    /\ reqs[r].pc = "generic_match"
    /\ LET c == CachesMatch(cacheOrder, store, reqs[r].request.url)
       IN  reqs' = [reqs EXCEPT ![r].cachedResponse = c,
                                ![r].net = "fetching",
                                ![r].fetches = @ + 1,
                                ![r].response = c,
                                ![r].pc = IF c # None THEN "done" ELSE "generic_await"]
    /\ UNCHANGED <<intercepted, lifeVars, trimVars, navPreload, cacheOrder, store, servedFromNet>>

\* caches.match(request) rejects: the outer catch returns the fallback; fetch
\* was not called
GenericMatchFail(r) ==
    /\ reqs[r].pc = "generic_match"
    /\ reqs' = [reqs EXCEPT ![r].response = GenericFallback(reqs[r].request),
                            ![r].lookupFailed = TRUE,
                            ![r].pc = "done"]
    /\ UNCHANGED <<intercepted, lifeVars, trimVars, navPreload, cacheOrder, store, servedFromNet>>

\* caches.open(imageCacheName) resolves
GenericOpen(r) ==
    /\ reqs[r].bg = "open"
    /\ cacheOrder' = OpenOrder(cacheOrder, imageCacheName)
    /\ store' = OpenStore(cacheOrder, store, imageCacheName)
    /\ reqs' = [reqs EXCEPT ![r].bg = "put"]
    /\ UNCHANGED <<intercepted, lifeVars, trimVars, navPreload, servedFromNet>>

\* imagesCache.put(request, copy) resolves; the callback returns
\* responseFromFetch, which resolves fetchPromise
GenericPut(r) ==
    /\ reqs[r].bg = "put"
    /\ store' = [store EXCEPT ![imageCacheName] =
                    CachePut(@, reqs[r].request.url, reqs[r].netResp)]
    /\ reqs' = [reqs EXCEPT ![r] = GenericFetchPromiseSettled([reqs[r] EXCEPT !.bg = "resolved"])]
    /\ UNCHANGED <<intercepted, lifeVars, trimVars, navPreload, cacheOrder, servedFromNet>>

\* caches.open or put rejects: the inner catch logs; the callback returns
\* responseFromFetch
GenericStoreFail(r) ==
    /\ reqs[r].bg \in {"open", "put"}
    /\ reqs' = [reqs EXCEPT ![r] = GenericFetchPromiseSettled(
                    [reqs[r] EXCEPT !.bg = "resolved", !.storeFailed = TRUE])]
    /\ UNCHANGED <<intercepted, lifeVars, trimVars, navPreload, cacheOrder, store, servedFromNet>>

(***************************************************************************)
(* Specification of the fetch listener of an activated worker              *)
(***************************************************************************)

GetRequest(p, mode, accept) ==
    [url |-> SelfUrl(p), method |-> "GET", mode |-> mode, accept |-> accept]

\* requests the strategies are exercised with
FetchRequests ==
    { GetRequest(PathPage, "navigate", AcceptHtml),
      GetRequest(PathOffline, "navigate", AcceptHtml),
      GetRequest(PathAssetJs, "no-cors", AcceptAny),
      [url |-> Url(OtherOrigin, PathImage), method |-> "GET", mode |-> "no-cors",
       accept |-> AcceptAny] }

Entry(p, src) == [key |-> SelfUrl(p), resp |-> Resp("http", SelfUrl(p), src)]

\* what install left in the assets cache: the required URLs, or nothing when
\* the required addAll failed
InstalledAssets == CachePutAll(<<>>, RequiredUrls, "install")

\* An activated worker, with and without navigation preload: a first install
\* whose snapshot found no client; an upgrade with pages older than assets,
\* holding earlier navigations (one of them to /offline); an install whose
\* required addAll failed, with and without an earlier navigation in pages
ActivatedWorkers ==
    { [order |-> <<assetCacheName, pagesCacheName>>, assets |-> InstalledAssets,
       pages |-> <<>>, preload |-> "unsupported"],
      [order |-> <<pagesCacheName, assetCacheName>>, assets |-> InstalledAssets,
       pages |-> <<Entry(PathOffline, "seed"), Entry(PathPage, "seed")>>,
       preload |-> "enabled"],
      [order |-> <<pagesCacheName, assetCacheName>>, assets |-> <<>>,
       pages |-> <<Entry(PathPage, "seed")>>, preload |-> "unsupported"],
      [order |-> <<assetCacheName, pagesCacheName>>, assets |-> <<>>,
       pages |-> <<>>, preload |-> "enabled"] }

InstDone ==
    [InstIdle EXCEPT !.pc = "done", !.result = "resolved", !.skipWaiting = TRUE]

ActDone ==
    [ActIdle EXCEPT !.pc = "done", !.result = "resolved", !.gcSettled = TRUE,
                    !.claimed = TRUE, !.notified = TRUE]

FetchInit ==
    /\ version = <<"v", "2">>
    /\ clientsOpen = {}
    /\ inbox = [c \in Clients |-> <<>>]
    /\ inst = InstDone
    /\ opt = "stored"
    /\ act = ActDone
    /\ \E c \in ActivatedWorkers :
          /\ navPreload = c.preload
          /\ cacheOrder = c.order
          /\ store = [n \in Range(c.order) |-> IF n = assetCacheName THEN c.assets ELSE c.pages]
    /\ reqs = [r \in Slots |-> ReqIdle]
    /\ servedFromNet = {}
    /\ intercepted = 0
    /\ trims = [t \in TrimIds |-> TrimIdle]
    /\ lastMessage = NoMessage
    /\ storage = "faulty"

Navigation(r) ==
    \/ NavMatch(r)
    \/ NavMatchFail(r)
    \/ NavTick(r)
    \/ NavTimerFire(r)
    \/ NavOpen(r)
    \/ NavPut(r)
    \/ NavStoreFail(r)
    \/ NavOffline(r)
    \/ NavOfflineFail(r)

ImmutableAsset(r) ==
    \/ AssetMatch(r)
    \/ AssetMatchFail(r)
    \/ AssetOpen(r)
    \/ AssetPut(r)
    \/ AssetStoreFail(r)

FetchNext ==
    \E r \in Slots :
        \/ \E request \in FetchRequests : Intercept(r, request)
        \/ Release(r)
        \/ PreloadSettle(r)
        \/ FetchSettle(r)
        \/ Navigation(r)
        \/ ImmutableAsset(r)

SpecFetch == FetchInit /\ [][FetchNext]_vars

(***************************************************************************)
(* Specification of the Generic strategy of an activated worker            *)
(***************************************************************************)

\* an image, the web manifest, and a hashed asset asked for with a query string
GenericRequests ==
    { GetRequest(PathImage, "no-cors", AcceptAny),
      GetRequest(PathManifest, "cors", AcceptAny),
      GetRequest(PathAssetQuery, "no-cors", AcceptAny) }

\* An activated worker: one whose install stored the manifest and that has
\* fetched no image yet; one whose optional addAll failed and that holds the
\* image from an earlier request
GenericWorkers ==
    { [order |-> <<assetCacheName, pagesCacheName>>,
       assets |-> CachePutAll(InstalledAssets, OptionalUrls, "install"),
       images |-> <<>>],
      [order |-> <<assetCacheName, pagesCacheName, imageCacheName>>,
       assets |-> InstalledAssets,
       images |-> <<Entry(PathImage, "seed")>>] }

GenericInit ==
    /\ version = <<"v", "2">>
    /\ clientsOpen = {}
    /\ inbox = [c \in Clients |-> <<>>]
    /\ inst = InstDone
    /\ opt \in {"stored", "failed"}
    /\ act = ActDone
    /\ navPreload = "unsupported"
    /\ \E c \in GenericWorkers :
          /\ (opt = "stored") = (Len(c.assets) > Len(InstalledAssets))
          /\ cacheOrder = c.order
          /\ store = [n \in Range(c.order) |->
                        IF n = assetCacheName THEN c.assets
                        ELSE IF n = imageCacheName THEN c.images
                        ELSE <<>>]
    /\ reqs = [r \in Slots |-> ReqIdle]
    /\ servedFromNet = {}
    /\ intercepted = 0
    /\ trims = [t \in TrimIds |-> TrimIdle]
    /\ lastMessage = NoMessage
    /\ storage = "faulty"

Generic(r) ==
    \/ GenericMatch(r)
    \/ GenericMatchFail(r)
    \/ GenericOpen(r)
    \/ GenericPut(r)
    \/ GenericStoreFail(r)

GenericNext ==
    \E r \in Slots :
        \/ \E request \in GenericRequests : Intercept(r, request)
        \/ Release(r)
        \/ FetchSettle(r)
        \/ Generic(r)

SpecGeneric == GenericInit /\ [][GenericNext]_vars

(***************************************************************************)
(* Specification of the router alone: every request, one at a time         *)
(***************************************************************************)

RouterNext ==
    \/ \E request \in AllRequests : Intercept(1, request)
    \/ \E r \in Slots : reqs[r].pc # "idle" /\ reqs' = [reqs EXCEPT ![r] = ReqIdle]
                        /\ UNCHANGED <<intercepted, lifeVars, trimVars, navPreload, cacheOrder, store, servedFromNet>>

SpecRouter == FetchInit /\ [][RouterNext]_vars

(***************************************************************************)
(* Claims about the fetch listener                                         *)
(***************************************************************************)

\* the paths of AllPaths that are of the form /assets/app-<hex>.(js|css)
HashedAssetPaths == {PathAssetJs, PathAssetCss}

\* C6: every intercepted request gets exactly one decision, by first match:
\* bypass (other origin or not GET), else Navigation (mode navigate or Accept
\* containing text/html), else Immutable-Asset (hashed-asset URL), else
\* Generic; respondWith is called unless the decision is bypass.  Checked
\* under SpecRouter.
C6_RouterFirstMatch ==
    \A r \in Slots :
        LET q == reqs[r]
            d == IF q.request.url.origin # SelfOrigin \/ q.request.method # "GET"
                   THEN "bypass"
                 ELSE IF q.request.mode = "navigate" \/ "text/html" \in Range(q.request.accept)
                   THEN "navigation"
                 ELSE IF q.request.url.path \in HashedAssetPaths
                   THEN "asset"
                 ELSE "generic"
        IN  q.pc # "idle" =>
               /\ q.decision = d
               /\ q.respondWith = (d # "bypass")
               /\ d = "bypass" => (q.pc = "done" /\ q.response = None)

C6_Witness ==
    /\ reqs[1].request = GetRequest(PathAssetJs, "no-cors", AcceptHtml)
    /\ reqs[1].decision = "navigation"
    /\ reqs[1].respondWith

\* C7: once the Immutable-Asset strategy has answered a request for a URL from
\* a successful network fetch, a later request it handles for the same URL
\* issues no network fetch, and the response it gets is the cached entry.
\* Checked under SpecFetch.
C7_CacheFirstShortCircuit ==
    \A r \in Slots :
        LET q == reqs[r]
        IN  (q.decision = "asset" /\ q.afterNet) =>
               /\ q.fetches = 0
               /\ q.net = "none"
               /\ q.response \notin {None, Rejected} =>
                     /\ q.response = q.cachedResponse
                     /\ q.response = CachesMatch(cacheOrder, store, q.request.url)
                     /\ q.response = CacheMatch(store[assetCacheName], q.request.url)

C7_Witness ==
    \E r \in Slots :
        /\ reqs[r].decision = "asset"
        /\ reqs[r].afterNet
        /\ reqs[r].pc = "done"
        /\ reqs[r].response = Resp("http", SelfUrl(PathAssetJs), "network")
        /\ reqs[r].fetches = 0

\* C8: a navigation with a cached entry whose network fetch is still pending
\* when the timer fires is answered with that cached entry, and not before
\* timeout ms of racing have passed; while the fetch is pending nothing is
\* returned unless the timer has fired.  Checked under SpecFetch.
C8_TimeoutServesCachedEntry ==
    \A r \in Slots :
        LET q == reqs[r]
        IN  /\ q.timer = "fired" =>
                 /\ q.cachedResponse # None
                 /\ q.response = q.cachedResponse
                 /\ q.pc = "done"
                 /\ q.elapsed >= timeout
            /\ (q.decision = "navigation" /\ Pending(q) /\ q.response # None) =>
                 (q.timer = "fired" /\ q.elapsed >= timeout)

C8_Witness ==
    \E r \in Slots :
        /\ reqs[r].timer = "fired"
        /\ Pending(reqs[r])
        /\ reqs[r].request.url = SelfUrl(PathPage)
        /\ reqs[r].response = Resp("http", SelfUrl(PathPage), "seed")

\* C9: a navigation with no cached entry never races a timer, and it is
\* answered with something other than the network (or preload) response only
\* after networkFetch has failed.  Checked under SpecFetch.
C9_NoTimeoutWithoutCache ==
    \A r \in Slots :
        LET q == reqs[r]
        IN  (q.decision = "navigation" /\ q.cachedResponse = None) =>
               /\ q.timer = "off"
               /\ q.elapsed = 0
               /\ q.pc # "nav_race"
               /\ q.pc = "nav_offline" => q.net = "failed"
               /\ q.response \notin {None, Rejected} =>
                     \/ q.net = "ok" /\ q.response = q.netResp
                     \/ q.net = "failed"

C9_Witness ==
    \E r \in Slots :
        /\ reqs[r].decision = "navigation"
        /\ reqs[r].cachedResponse = None
        /\ reqs[r].pc = "done"
        /\ reqs[r].net = "failed"
        /\ reqs[r].response = OfflineResponse

C13_RespondWithNeverRejects ==
    \A r \in Slots : reqs[r].respondWith => reqs[r].response # Rejected

\* C14: in each strategy, when the network fetch succeeded and the store that
\* follows it (caches.open or put) failed, the response returned to a caller
\* that was waiting for the network is the network response
C14_StoreFailureKeepsNetworkResponse ==
    \A r \in Slots :
        ( /\ reqs[r].storeFailed
          /\ reqs[r].pc = "done"
          /\ ~(reqs[r].decision = "generic" /\ reqs[r].cachedResponse # None) )
        => (reqs[r].net = "ok" /\ reqs[r].response = reqs[r].netResp)

\* paths of the exercised requests that have an image extension
ImagePaths == {PathImage}

\* C15: in the Generic strategy, a request whose cache lookup missed and whose
\* fetch failed gets the placeholder image, marked Cache-Control: no-store,
\* when its URL has an image extension and the synthesized 503 otherwise;
\* neither is the response when the lookup hit or the fetch succeeded
C15_GenericFallback ==
    \A r \in Slots :
        (reqs[r].decision = "generic" /\ reqs[r].pc = "done") =>
            /\ (reqs[r].cachedResponse = None /\ reqs[r].net = "failed") =>
                  IF reqs[r].request.url.path \in ImagePaths
                  THEN /\ reqs[r].response = PlaceholderResponse
                       /\ SynthesizedHeaders(reqs[r].response).CacheControl = "no-store"
                       /\ SynthesizedHeaders(reqs[r].response).ContentType = "image/svg+xml"
                  ELSE reqs[r].response = NetworkErrorResponse
            /\ (reqs[r].cachedResponse # None \/ reqs[r].net = "ok") =>
                  reqs[r].response \notin {PlaceholderResponse, NetworkErrorResponse}

C15_Witness ==
    \E r, s \in Slots :
        /\ reqs[r].decision = "generic" /\ reqs[r].pc = "done"
        /\ reqs[r].request.url.path = PathImage
        /\ reqs[r].cachedResponse = None /\ reqs[r].net = "failed"
        /\ reqs[r].response = PlaceholderResponse
        /\ reqs[s].decision = "generic" /\ reqs[s].pc = "done"
        /\ reqs[s].request.url.path = PathAssetQuery
        /\ reqs[s].cachedResponse = None /\ reqs[s].net = "failed"
        /\ reqs[s].response = NetworkErrorResponse

\* C16: once the timer has answered a navigation, the request stays answered
\* with the cached response, and the step in which its network fetch settles
\* afterwards changes no cache
C16_LateNetworkDiscarded ==
    /\ [](\A r \in Slots :
            reqs[r].timer = "fired" =>
                /\ reqs[r].pc = "done"
                /\ reqs[r].response = reqs[r].cachedResponse
                /\ reqs[r].response # None)
    /\ [][\A r \in Slots :
            (reqs[r].timer = "fired" /\ Pending(reqs[r]) /\ ~Pending(reqs'[r]))
                => UNCHANGED <<cacheOrder, store>>]_vars

C16_Witness ==
    \E r \in Slots :
        /\ reqs[r].timer = "fired"
        /\ reqs[r].net = "ok"
        /\ reqs[r].pc = "done"
        /\ reqs[r].response = reqs[r].cachedResponse
        /\ CacheMatch(store[pagesCacheName], reqs[r].request.url) = reqs[r].cachedResponse

\* C17: the store into images (Generic) or pages (Navigation) is not between
\* the arrival of the network response and its delivery: a request whose
\* network response has arrived has its response
C17_StoreNeverDelaysResponse ==
    \A r \in Slots :
        (reqs[r].decision \in {"navigation", "generic"} /\ reqs[r].net = "ok")
            => reqs[r].response # None

\* C19: a put into the assets cache by the Immutable-Asset strategy never finds
\* an entry of its key there, also with concurrent requests for one URL
C19_AssetsNeverOverwritten ==
    [][\A r \in Slots :
          ( /\ reqs[r].pc = "asset_put"
            /\ reqs'[r].pc = "done"
            /\ reqs'[r].response = reqs[r].netResp )
          => CacheMatch(store[assetCacheName], reqs[r].request.url) = None]_vars

\* C20: the Generic strategy has started exactly one fetch for a request once
\* its cache lookup resolved, hit or miss; after a hit the response is the
\* cached entry, from the moment the lookup resolved and whatever the fetch does
C20_GenericAlwaysOneFetch ==
    \A r \in Slots :
        ( /\ reqs[r].decision = "generic"
          /\ reqs[r].pc # "generic_match"
          /\ ~reqs[r].lookupFailed )
        => /\ reqs[r].fetches = 1
           /\ reqs[r].cachedResponse # None =>
                 (reqs[r].pc = "done" /\ reqs[r].response = reqs[r].cachedResponse)

C20_Witness ==
    \E r, s \in Slots :
        /\ reqs[r].decision = "generic" /\ reqs[r].cachedResponse # None
        /\ reqs[r].response = reqs[r].cachedResponse
        /\ reqs[r].net = "fetching" /\ reqs[r].fetches = 1
        /\ reqs[s].decision = "generic" /\ reqs[s].cachedResponse # None
        /\ reqs[s].response = reqs[s].cachedResponse
        /\ reqs[s].net = "failed" /\ reqs[s].fetches = 1

(***************************************************************************)
(* trimCache (lines 95-107) and the message listener (lines 139-144)       *)
(***************************************************************************)

Running(t) == trims[t].pc \in {"open", "keys", "delete"}

\* the listener's test of event.data.command
IsTrimCommand(command) == command = <<"t", "r", "i", "m", "C", "a", "c", "h", "e", "s">>

TrimCachesCommand == <<"t", "r", "i", "m", "C", "a", "c", "h", "e", "s">>

\* a command the listener does not know: it differs in case
OtherCommands == { <<"t", "r", "i", "m", "c", "a", "c", "h", "e", "s">> }

\* the content of a cache when a trimCache call on it is made; a cache that
\* does not exist yet has none
ContentOf(name) == IF name \in Range(cacheOrder) THEN store[name] ELSE <<>>

\* trimCache(cacheName, maxItems) is called
TrimStart(call) ==
    [TrimIdle EXCEPT !.pc = "open", !.cacheName = call.cacheName,
                     !.maxItems = call.maxItems, !.before = ContentOf(call.cacheName)]

\* The trimCache calls of the g-th trimCaches message that is being handled:
\* one per call the listener makes
CallsOfMessage(g) == { (g * Len(TrimCalls)) + i : i \in TrimIds }

\* the call of the listener that the trimCache call t is
CallOf(t) == ((t - 1) % Len(TrimCalls)) + 1

\* The message listener runs.  With the command "trimCaches" it makes its two
\* trimCache calls, neither awaited; with any other command it does nothing.
\* trims names the calls that are running: those of a new message take the
\* lowest names whose calls are over
OnMessage(command) ==
    /\ lastMessage' = command
    /\ IF IsTrimCommand(command)
       THEN \E g \in 0..((Len(trims) \div Len(TrimCalls)) - 1) :
               /\ \A t \in CallsOfMessage(g) : ~Running(t)
               /\ \A h \in 0..(g - 1) : \E t \in CallsOfMessage(h) : Running(t)
               /\ trims' = [t \in DOMAIN trims |->
                               IF t \in CallsOfMessage(g)
                               THEN TrimStart(TrimCalls[CallOf(t)])
                               ELSE trims[t]]
       ELSE trims' = trims
    /\ UNCHANGED <<storage, lifeVars, navPreload, cacheOrder, store, reqs, servedFromNet,
                   intercepted>>

\* caches.open(cacheName) resolves
TrimOpen(t) ==
    /\ trims[t].pc = "open"
    /\ cacheOrder' = OpenOrder(cacheOrder, trims[t].cacheName)
    /\ store' = OpenStore(cacheOrder, store, trims[t].cacheName)
    /\ trims' = [trims EXCEPT ![t].pc = "keys"]
    /\ UNCHANGED <<lastMessage, storage, lifeVars, navPreload, reqs, servedFromNet, intercepted>>

\* if (keys.length >= maxItems)
TrimKeysAtLeast(keys, maxItems) == Len(keys) >= maxItems

\* if (keys.length > maxItems)
TrimKeysExceed(keys, maxItems) == Len(keys) > maxItems

\* cache.keys() resolves: with more than maxItems keys the call goes on to
\* delete keys[0], otherwise it returns
TrimKeys(t) ==
    /\ trims[t].pc = "keys"
    /\ LET keys == store[trims[t].cacheName]
       IN  trims' = IF TrimKeysExceed(keys, trims[t].maxItems)
                    THEN [trims EXCEPT ![t].key = keys[1].key, ![t].pc = "delete"]
                    ELSE [trims EXCEPT ![t].pc = "done"]
    /\ UNCHANGED <<lastMessage, storage, lifeVars, navPreload, cacheOrder, store, reqs, servedFromNet,
                   intercepted>>

\* cache.delete(keys[0]) resolves and trimCache returns without calling itself
TrimDeleteOnce(t) ==
    /\ trims[t].pc = "delete"
    /\ store' = [store EXCEPT ![trims[t].cacheName] = SelectKeyNot(@, trims[t].key)]
    /\ trims' = [trims EXCEPT ![t].pc = "done",
                              ![t].deleted = Append(@, trims[t].key)]
    /\ UNCHANGED <<lastMessage, storage, lifeVars, navPreload, cacheOrder, reqs, servedFromNet, intercepted>>

\* cache.delete(keys[0]) resolves (an entry that is gone already deletes
\* nothing) and trimCache calls itself: the inner call starts at caches.open
TrimDelete(t) ==
    /\ trims[t].pc = "delete"
    /\ store' = [store EXCEPT ![trims[t].cacheName] = SelectKeyNot(@, trims[t].key)]
    /\ trims' = [trims EXCEPT ![t].pc = "open",
                              ![t].deleted = Append(@, trims[t].key)]
    /\ UNCHANGED <<lastMessage, storage, lifeVars, navPreload, cacheOrder, reqs, servedFromNet, intercepted>>

\* caches.open, cache.keys or cache.delete rejects: the catch of the call that
\* awaited it logs, and that call and all its callers return
TrimFail(t) ==
    /\ Running(t)
    /\ storage = "faulty"
    /\ trims' = [trims EXCEPT ![t].pc = "done", ![t].failed = TRUE]
    /\ UNCHANGED <<lastMessage, storage, lifeVars, navPreload, cacheOrder, store, reqs, servedFromNet,
                   intercepted>>

TrimCache(t) == TrimOpen(t) \/ TrimKeys(t) \/ TrimDelete(t) \/ TrimFail(t)

Message == \E command \in {TrimCachesCommand} \cup OtherCommands : OnMessage(command)

(***************************************************************************)
(* Specification of trimming alone: messages arrive, nothing else writes   *)
(***************************************************************************)

DigitChars == <<"0", "1", "2", "3", "4", "5", "6", "7", "8", "9">>

RECURSIVE Decimal(_)
Decimal(n) ==
    IF n < 10 THEN <<DigitChars[n + 1]>>
    ELSE Decimal(n \div 10) \o <<DigitChars[(n % 10) + 1]>>

\* the i-th page that was navigated to, the i-th image that was fetched
PathPageNo(i) == <<"/", "p">> \o Decimal(i)

PathImageNo(i) == <<"/", "i">> \o Decimal(i) \o <<".", "p", "n", "g">>

\* n entries stored by earlier requests, oldest first
PagesEntries(n) == [i \in 1..n |-> Entry(PathPageNo(i), "seed")]

ImagesEntries(n) == [i \in 1..n |-> Entry(PathImageNo(i), "seed")]

\* What the caches hold when a message arrives: none with no images cache
\* yet, fewer than, exactly, two more than the maximum, with storage operations
\* that may reject; well over the maximum, with storage operations that resolve
TrimScenarios ==
    { [pages |-> 0, images |-> 0, created |-> FALSE, storage |-> "faulty"],
      [pages |-> 49, images |-> 100, created |-> TRUE, storage |-> "faulty"],
      [pages |-> 50, images |-> 102, created |-> TRUE, storage |-> "faulty"],
      [pages |-> 52, images |-> 99, created |-> TRUE, storage |-> "faulty"],
      [pages |-> 60, images |-> 120, created |-> TRUE, storage |-> "ok"] }

\* an activated worker that handles no request
Quiescent ==
    /\ version = <<"v", "2">>
    /\ clientsOpen = {}
    /\ inbox = [c \in Clients |-> <<>>]
    /\ inst = InstDone
    /\ opt = "stored"
    /\ act = ActDone
    /\ navPreload = "unsupported"
    /\ reqs = [r \in Slots |-> ReqIdle]
    /\ servedFromNet = {}
    /\ intercepted = 0
    /\ trims = [t \in TrimIds |-> TrimIdle]
    /\ lastMessage = NoMessage

\* the images cache exists once an image was fetched
TrimInit ==
    /\ Quiescent
    /\ \E c \in TrimScenarios :
          /\ storage = c.storage
          /\ cacheOrder = <<assetCacheName, pagesCacheName>>
                            \o (IF c.created THEN <<imageCacheName>> ELSE <<>>)
          /\ store = [n \in Range(cacheOrder) |->
                        IF n = assetCacheName THEN InstalledAssets
                        ELSE IF n = pagesCacheName THEN PagesEntries(c.pages)
                        ELSE ImagesEntries(c.images)]

TrimNext == Message \/ \E t \in TrimIds : TrimCache(t)

SpecTrim == TrimInit /\ [][TrimNext]_vars

\* a storage operation a trimCache call awaits settles, and the call goes on
SpecTrimLive == SpecTrim /\ \A t \in TrimIds : WF_vars(TrimCache(t))

(***************************************************************************)
(* Claims about trimCache and the message listener                         *)
(***************************************************************************)

KeysOf(entries) == [i \in 1..Len(entries) |-> entries[i].key]

\* what a trimCache call that returned without a failure has done
TrimmedToNewest(t) ==
    LET M == Len(trims[t].before)
        N == trims[t].maxItems
        now == ContentOf(trims[t].cacheName)
    IN  /\ M > N => /\ Len(now) = N
                    /\ now = SubSeq(trims[t].before, M - N + 1, M)
                    /\ trims[t].deleted = KeysOf(SubSeq(trims[t].before, 1, M - N))
        /\ M <= N => /\ now = trims[t].before
                     /\ trims[t].deleted = <<>>

\* C11: with no concurrent writes, trimCache(cache, N) on a cache of M > N
\* entries terminates leaving exactly the N most recently inserted ones, having
\* deleted the M-N oldest, and leaves a cache of M <= N entries unchanged
C11_TrimLeavesNewest ==
    /\ [](\A t \in TrimIds :
            (trims[t].pc = "done" /\ ~trims[t].failed) => TrimmedToNewest(t))
    /\ \A t \in TrimIds : Running(t) ~> (trims[t].pc = "done")

C11_Witness ==
    \E t \in TrimIds :
        /\ trims[t].pc = "done"
        /\ ~trims[t].failed
        /\ Len(trims[t].before) = trims[t].maxItems + 10
        /\ Len(store[trims[t].cacheName]) = trims[t].maxItems

TrimFailed(name) == \E t \in TrimIds : trims[t].cacheName = name /\ trims[t].failed

\* C12: a "trimCaches" message eventually brings pages down to at most 50
\* entries and images to at most 100, each unless its own trim met a storage
\* failure and whatever happens to the other; a message with another command
\* changes no cache and starts no trim
C12_TrimCachesMessage ==
    /\ (lastMessage = TrimCachesCommand)
          ~> (Len(ContentOf(pagesCacheName)) <= 50 \/ TrimFailed(pagesCacheName))
    /\ (lastMessage = TrimCachesCommand)
          ~> (Len(ContentOf(imageCacheName)) <= 100 \/ TrimFailed(imageCacheName))
    /\ [][(lastMessage' # lastMessage /\ lastMessage' # TrimCachesCommand)
            => UNCHANGED <<cacheOrder, store, trims>>]_vars

C12_Witness ==
    /\ lastMessage = TrimCachesCommand
    /\ \A t \in TrimIds : trims[t].pc = "done" /\ ~trims[t].failed
    /\ \E t \in TrimIds : trims[t].cacheName = pagesCacheName /\ Len(trims[t].before) = 60
    /\ \E t \in TrimIds : trims[t].cacheName = imageCacheName /\ Len(trims[t].before) = 120
    /\ Len(store[pagesCacheName]) = 50
    /\ Len(store[imageCacheName]) = 100

(***************************************************************************)
(* Specification of trimming while requests are handled, one at a time     *)
(***************************************************************************)

\* a navigation to a page that is not in pages, an image that is not in images
BoundRequests ==
    { GetRequest(PathPage, "navigate", AcceptHtml),
      GetRequest(PathImage, "no-cors", AcceptAny) }

\* caches over their maxima with storage operations that resolve; caches at
\* their maxima with storage operations that may reject
BoundScenarios ==
    { [pages |-> 52, images |-> 101, storage |-> "ok"],
      [pages |-> 50, images |-> 100, storage |-> "faulty"] }

BoundInit ==
    /\ Quiescent
    /\ \E c \in BoundScenarios :
          /\ storage = c.storage
          /\ cacheOrder = <<assetCacheName, pagesCacheName, imageCacheName>>
          /\ store = [n \in Range(cacheOrder) |->
                        IF n = assetCacheName THEN InstalledAssets
                        ELSE IF n = pagesCacheName THEN PagesEntries(c.pages)
                        ELSE ImagesEntries(c.images)]

\* the steps of the navigation branch for a request that has no cached
\* response: no timer is armed
NavigationUncached(r) ==
    \/ NavMatch(r)
    \/ NavMatchFail(r)
    \/ NavOpen(r)
    \/ NavPut(r)
    \/ NavStoreFail(r)
    \/ NavOffline(r)
    \/ NavOfflineFail(r)

BoundNext ==
    \/ OnMessage(TrimCachesCommand)
    \/ \E t \in TrimIds : TrimCache(t)
    \/ \E request \in BoundRequests : Intercept(1, request)
    \/ Release(1)
    \/ FetchSettle(1)
    \/ NavigationUncached(1)
    \/ Generic(1)

SpecBound == BoundInit /\ [][BoundNext]_vars

\* the maximum the message listener trims a cache to
MaxOf(name) == IF name = pagesCacheName THEN 50 ELSE 100

StrategyInit ==
    /\ version = <<"v", "2">>
    /\ clientsOpen = {}
    /\ inbox = [c \in Clients |-> <<>>]
    /\ inst = InstDone
    /\ opt = "failed"
    /\ act = ActDone
    /\ \/ /\ navPreload = "enabled"
          /\ cacheOrder = <<pagesCacheName, imageCacheName, assetCacheName>>
          /\ store = [n \in Range(cacheOrder) |->
                        IF n = assetCacheName THEN InstalledAssets
                        ELSE IF n = pagesCacheName THEN <<Entry(PathPage, "seed")>>
                        ELSE <<Entry(PathImage, "seed")>>]
       \/ /\ navPreload = "unsupported"
          /\ cacheOrder = <<assetCacheName, pagesCacheName>>
          /\ store = [n \in Range(cacheOrder) |->
                        IF n = assetCacheName THEN InstalledAssets ELSE <<>>]
    /\ reqs = [r \in Slots |-> ReqIdle]
    /\ servedFromNet = {}
    /\ intercepted = 0
    /\ trims = [t \in TrimIds |-> TrimIdle]
    /\ lastMessage = NoMessage
    /\ storage = "faulty"

\* requests of every route: a navigation, a hashed asset, an image, the
\* manifest (generic, no image), a cross-origin image (bypassed)
StrategyNext ==
    \/ \E request \in FetchRequests \cup GenericRequests : Intercept(1, request)
    \/ Release(1)
    \/ PreloadSettle(1)
    \/ FetchSettle(1)
    \/ Navigation(1)
    \/ ImmutableAsset(1)
    \/ Generic(1)

SpecStrategies == StrategyInit /\ [][StrategyNext]_vars

(***************************************************************************)
(* Claims about what the strategies write                                  *)
(***************************************************************************)

\* the cache holds exactly one entry of the key, and it is the response
HoldsOnly(entries, key, resp) ==
    /\ CacheMatch(entries, key) = resp
    /\ Len(SelectSeq(entries, LAMBDA e : e.key = key)) = 1

\* C21: the step in which a navigation's put into pages succeeds returns the
\* network response and leaves it as the one entry of the request in pages,
\* whatever pages held for that key; the step in which the Generic strategy's
\* put of an image succeeds leaves the fetched response as the one entry of the
\* request in images
C21_StoreReplacesEntry ==
    [][\A r \in Slots :
          /\ ( /\ reqs[r].pc = "nav_put"
               /\ reqs'[r].pc = "done"
               /\ ~reqs'[r].storeFailed )
             => /\ reqs[r].net = "ok"
                /\ reqs'[r].response = reqs[r].netResp
                /\ HoldsOnly(store'[pagesCacheName], reqs[r].request.url,
                             reqs'[r].response)
          /\ ( /\ reqs[r].bg = "put"
               /\ reqs'[r].bg = "resolved"
               /\ ~reqs'[r].storeFailed )
             => /\ reqs[r].net = "ok"
                /\ HoldsOnly(store'[imageCacheName], reqs[r].request.url,
                             reqs[r].netResp)]_vars

\* the page and the image served before have both been replaced by fetched
\* responses
C21_Witness ==
    /\ imageCacheName \in Range(cacheOrder)
    /\ CacheMatch(store[pagesCacheName], SelfUrl(PathPage)).src \in {"network", "preload"}
    /\ CacheMatch(store[imageCacheName], SelfUrl(PathImage)).src = "network"
    /\ Len(store[pagesCacheName]) = 1
    /\ Len(store[imageCacheName]) = 1
    /\ reqs[1].cachedResponse.src = "seed"

NoCache == <<>>

\* the cache a request's strategy may write to
OwnCache(q) ==
    IF q.decision = "navigation" THEN pagesCacheName
    ELSE IF q.decision = "asset" /\ q.cachedResponse = None THEN assetCacheName
    ELSE IF q.decision = "generic" /\ q.request.url.path \in ImagePaths THEN imageCacheName
    ELSE NoCache

\* the cache was created, deleted, or its entries changed in the step
CacheChanged(n) ==
    \/ (n \in Range(cacheOrder)) # (n \in Range(cacheOrder'))
    \/ n \in Range(cacheOrder) /\ n \in Range(cacheOrder') /\ store'[n] # store[n]

\* C22: a step changes a cache only when it is the cache of the strategy of a
\* request in flight (pages for Navigation, assets for an Immutable-Asset miss,
\* images for a Generic image request; none for a bypassed request, an
\* Immutable-Asset hit, a Generic request for another URL), and no cache ever
\* holds a synthesized 503 or the placeholder image
C22_WritesOnlyOwnCache ==
    /\ [](\A n \in Range(cacheOrder) : \A i \in 1..Len(store[n]) :
              store[n][i].resp.kind = "http")
    /\ [][\A n \in Range(cacheOrder) \cup Range(cacheOrder') :
              CacheChanged(n) =>
                  \E r \in Slots : reqs[r].pc # "idle" /\ n = OwnCache(reqs[r])]_vars

\* a hashed asset has been stored in assets, and the manifest fetched by the
\* Generic strategy has been stored nowhere
C22_Witness ==
    /\ CacheMatch(store[assetCacheName], SelfUrl(PathAssetJs)) # None
    /\ reqs[1].decision = "generic"
    /\ reqs[1].request.url.path = PathManifest
    /\ reqs[1].net = "ok"
    /\ reqs[1].bg = "resolved"
    /\ reqs[1].response = reqs[1].netResp
    /\ \A n \in Range(cacheOrder) : CacheMatch(store[n], SelfUrl(PathManifest)) = None

(***************************************************************************)
(* Specification of trimCache calls that overlap: a second trimCaches      *)
(* message arrives while the calls of the first are running, and a         *)
(* navigation stores into pages meanwhile                                  *)
(***************************************************************************)

\* how many trimCaches messages are handled at a time
MaxTrimMessages == 2

RaceTrimIds == 1..(Len(TrimCalls) * MaxTrimMessages)

\* the oldest page of the cache is visited again
RaceRequests == { GetRequest(PathPageNo(1), "navigate", AcceptHtml) }

\* an activated worker whose pages cache holds one entry more than maxPages,
\* and whose storage operations resolve
RaceInit ==
    /\ version = <<"v", "2">>
    /\ clientsOpen = {}
    /\ inbox = [c \in Clients |-> <<>>]
    /\ inst = InstDone
    /\ opt = "stored"
    /\ act = ActDone
    /\ navPreload = "unsupported"
    /\ reqs = [r \in Slots |-> ReqIdle]
    /\ servedFromNet = {}
    /\ intercepted = 0
    /\ trims = [t \in RaceTrimIds |-> TrimIdle]
    /\ lastMessage = NoMessage
    /\ storage = "ok"
    /\ cacheOrder = <<assetCacheName, pagesCacheName>>
    /\ store = [n \in Range(cacheOrder) |->
                  IF n = assetCacheName THEN InstalledAssets
                  ELSE PagesEntries(maxPages + 1)]

\* a trimCaches message arrives while a name for its calls was never used
RaceMessage ==
    /\ \E t \in RaceTrimIds : trims[t].pc = "idle"
    /\ OnMessage(TrimCachesCommand)

\* The steps of the navigation branch when the network settles before the
\* timer of the race fires and the storage operations resolve
NavigationInTime(r) ==
    \/ NavMatch(r)
    \/ NavOpen(r)
    \/ NavPut(r)
    \/ NavOffline(r)

RaceNext ==
    \/ RaceMessage
    \/ \E t \in RaceTrimIds : TrimOpen(t) \/ TrimKeys(t) \/ TrimDelete(t)
    \/ \E request \in RaceRequests : Intercept(1, request)
    \/ Release(1)
    \/ FetchSettle(1)
    \/ NavigationInTime(1)

SpecRace == RaceInit /\ [][RaceNext]_vars

(***************************************************************************)
(* Claim about trimCache under concurrent puts and trims                   *)
(***************************************************************************)

\* the cache a trimCache call works on, as it is
CacheOf(t) == store[trims[t].cacheName]

\* the call t comes back from cache.delete(keys[0])
DeleteResolves(t) == trims[t].pc = "delete" /\ trims'[t].pc = "open"

\* C23 as stated: whatever puts and other trimCache calls interleave, an entry
\* that a trimCache call deletes is the oldest-inserted entry of the cache at
\* the moment of the deletion, and a deletion never takes a cache that held at
\* least maxItems entries below maxItems
C23_TrimDeletesOnlyOldest ==
    [][\A t \in DOMAIN trims :
          DeleteResolves(t) =>
             /\ Len(store'[trims[t].cacheName]) < Len(CacheOf(t))
                    => CacheOf(t)[1].key = trims[t].key
             /\ Len(CacheOf(t)) >= trims[t].maxItems
                    => Len(store'[trims[t].cacheName]) >= trims[t].maxItems]_vars

====
